---- MODULE Spec2Model ----
(***************************************************************************)
(* Worker process supervisor and request bridge (class PythonManager of   *)
(* the Electron main process), modelled on the Node.js event loop: every  *)
(* action is one macrotask (an IPC call, an HTTP response, a timer, a     *)
(* child-process event) or one microtask (a promise continuation).        *)
(* Macrotasks run only when the microtask queue is empty.                 *)
(* The simulation playback of the renderer (App component) is a second,   *)
(* independent state machine over the variable sim.                       *)
(***************************************************************************)
EXTENDS Integers, Sequences, FiniteSets, TLC

\* ---- bounds of the model -------------------------------------------------
NClients == 2
MaxOps == 2
MaxAttempts == 2
MaxQuits == 1

Clients == 1..NClients
Ops == 1..MaxOps
\* the request('/boundary/cache') issued by ensureBoundary of spawnWorker k
BTask(k) == NClients + k
Tasks == 1..(NClients + MaxOps)

VARIABLES
  process,       \* this.process: 0 = null, else the child spawned by spawnWorker k
  ready,         \* this.ready
  startPromise,  \* this.startPromise: 0 = null, else spawnWorker(k).finally(...)
  quitting,      \* module-level `quitting`
  quits,         \* number of before-quit events so far
  nextOp,        \* next spawnWorker execution to start
  op,            \* spawnWorker executions
  proc,          \* child processes, one per spawnWorker that reached spawn
  killed,        \* children that were sent a termination signal
  listener,      \* the child that holds the worker port (0 = none)
  healthy,       \* children that answered a /health probe successfully
  timers,        \* pending setTimeout(cleanup, 2000) of stop(), in firing order
  micro,         \* microtask queue (promise continuations)
  task,          \* start()/request() invocations: callers and ensureBoundary
  env,           \* what the platform may do in this run: fail a spawn, throw from kill
  payload,       \* the payload argument the IPC handlers pass to request()
  sim,           \* simulation playback state of the renderer (App component)
  budget,        \* failures the worker may still produce (-1 = any number)
  clsErr,        \* input of the classification run / of the error round trip
  clsOut         \* output of the classification run / of the error round trip

vars == <<process, ready, startPromise, quitting, quits, nextOp, op, proc,
          killed, listener, healthy, timers, micro, task, env, payload, sim, budget,
          clsErr, clsOut>>

\* ---- errors ---------------------------------------------------------------
TRANSIENT_ERROR_CODES == {"ECONNREFUSED", "ECONNRESET", "ETIMEDOUT"}

\* an error thrown by performRequest: status 0 = no response was received
AxErr(st, dt, cd) == [axios |-> TRUE, status |-> st, data |-> dt, code |-> cd]
NoErr == [axios |-> FALSE, status |-> 0, data |-> "none", code |-> "none"]
E4xx == AxErr(400, "errors", "ERR_BAD_REQUEST")
E5xx == AxErr(500, "text", "ERR_BAD_RESPONSE")
EConn == AxErr(0, "empty", "ECONNREFUSED")
E422 == AxErr(422, "message", "ERR_BAD_REQUEST")
HttpErrors == {E4xx, E422, E5xx, EConn}

isAxiosError(e) == e.axios

shouldAttemptRecoveryBroad(e) ==
  /\ isAxiosError(e)
  /\ \/ e.status >= 400
     \/ e.code \in TRANSIENT_ERROR_CODES

\* shouldAttemptRecovery that looks at the response status only
shouldAttemptRecoveryStatusOnly(e) ==
  /\ isAxiosError(e)
  /\ e.status # 0 /\ e.status >= 500

shouldAttemptRecovery(e) ==
  /\ isAxiosError(e)
  /\ \/ e.status # 0 /\ e.status >= 500
     \/ e.code # "none" /\ e.code \in TRANSIENT_ERROR_CODES

\* JSON.stringify of a response body / new Error(text)
Stringify(d) == <<"json", d>>
ErrorOf(m) == [k |-> "err", msg |-> m]

\* normalizeError that builds the message with String(data)
normalizeErrorLossy(e) ==
  IF ~isAxiosError(e) THEN ErrorOf(<<"error", e>>)
  ELSE IF e.status # 0 /\ e.data # "empty"
    THEN IF e.data = "text" THEN ErrorOf(<<"text", e.data>>)
         ELSE ErrorOf(<<"text", "[object Object]">>)
  ELSE IF e.code # "none" /\ e.code \in TRANSIENT_ERROR_CODES
    THEN ErrorOf(<<"unavailable">>)
  ELSE ErrorOf(<<"axios", e>>)

normalizeError(e) ==
  IF ~isAxiosError(e) THEN ErrorOf(<<"error", e>>)
  ELSE IF e.status # 0 /\ e.data # "empty"
    THEN IF e.data = "text" THEN ErrorOf(<<"text", e.data>>)
         ELSE ErrorOf(Stringify(e.data))
  ELSE IF e.code # "none" /\ e.code \in TRANSIENT_ERROR_CODES
    THEN ErrorOf(<<"unavailable">>)
  ELSE ErrorOf(<<"axios", e>>)

NoRes == [k |-> "none", msg |-> <<>>]
OkRes == [k |-> "ok", msg |-> <<>>]
RawRes(e) == ErrorOf(<<"axios", e>>)
StartFailed == ErrorOf(<<"Python worker failed to start">>)
\* the error child_process.spawn throws when it fails synchronously
SpawnFailed == ErrorOf(<<"spawn">>)

\* ---- performRequest ---------------------------------------------------------
\* the values the payload argument of request() can take: the IPC handlers pass
\* whatever the renderer sent, ensureBoundary passes {}
Payloads == {"undefined", "null", "empty", "object"}
\* JavaScript truthiness of `payload`
Truthy(pl) == pl \notin {"undefined", "null"}
\* performRequest that sends a payload only when it has keys
HttpMethodNonEmpty(pl) == IF pl = "object" THEN "POST" ELSE "GET"
\* `if (payload) axios.post(url, payload) else axios.get(url)`
HttpMethod(pl) == IF Truthy(pl) THEN "POST" ELSE "GET"

\* null, the initial value of the simulation state of the renderer
NoSim == [loaded |-> FALSE, segments |-> <<>>, dwell |-> <<>>, currentIndex |-> 0,
          progress |-> 0, active |-> FALSE, speed |-> 1, multiplier |-> 1,
          dwellQueue |-> 0]

\* ---- initial state --------------------------------------------------------
\* to: the child an HTTP call in flight was sent to (0 = nobody was listening)
NoOp == [pc |-> "none", attempt |-> 0, out |-> "none", to |-> 0]
Finished == [pc |-> "finished", attempt |-> 0, out |-> "none", to |-> 0]
\* kind: start | request | boundary; rs: restartWorker calls of the request;
\* sp: spawn calls made by its restartWorker
\* how: what the stop() of restartWorker did; op: the start operation awaited
NoTask == [kind |-> "none", pc |-> "idle", op |-> 0, res |-> NoRes,
           err1 |-> NoErr, rs |-> 0, sp |-> 0, how |-> "none", to |-> 0]
Closed == [NoTask EXCEPT !.pc = "closed"]

InitManager ==
  /\ process = 0
  /\ ready = FALSE
  /\ startPromise = 0
  /\ quitting = FALSE
  /\ quits = 0
  /\ nextOp = 1
  /\ op = [k \in Ops |-> NoOp]
  /\ proc = [k \in Ops |-> "none"]
  /\ killed = {}
  /\ listener = 0
  /\ healthy = {}
  /\ timers = <<>>
  /\ micro = <<>>
  /\ task = [t \in Tasks |-> NoTask]

Init ==
  /\ InitManager
  /\ env = [spawnFails |-> FALSE, killThrows |-> FALSE]
  /\ budget = -1
  /\ payload = "object"
  /\ sim = NoSim
  /\ clsErr = NoErr
  /\ clsOut = "none"

\* ---- helpers ---------------------------------------------------------------
Finally(k) == [m |-> "finally", id |-> k]
Resume(t) == [m |-> "resume", id |-> t]
Reply(t) == [m |-> "reply", id |-> t]

RECURSIVE QueueOf(_, _)
QueueOf(S, kind) ==
  IF S = {} THEN <<>>
  ELSE LET k == CHOOSE x \in S : \A y \in S : x <= y
       IN <<[m |-> kind, id |-> k]>> \o QueueOf(S \ {k}, kind)

\* ensureBoundary: whatever request('/boundary/cache') settles with, the
\* spawnWorker execution that awaits it resolves; a caller's settled promise
\* is delivered to it in a later microtask
ensureBoundary(tk2, op2, mq) ==
  LET fin == {k \in Ops : op2[k].pc = "boundary" /\ tk2[BTask(k)].pc = "done"}
      rep == {c \in Clients : task[c].pc # "done" /\ tk2[c].pc = "done"}
  IN /\ task' = tk2
     /\ op' = [k \in Ops |-> IF k \in fin
                             THEN [op2[k] EXCEPT !.pc = "settled", !.out = "ok"]
                             ELSE op2[k]]
     /\ micro' = mq \o QueueOf(fin, "finally") \o QueueOf(rep, "reply")

\* the caller's position while it awaits this.startPromise
WaitPc(r) == IF r.pc = "after_stop" THEN "restart_start" ELSE "await_start"

\* the caller's position after its start() has returned
Returned(r) ==
  IF r.kind = "start" THEN [r EXCEPT !.pc = "done", !.res = OkRes]
  ELSE IF r.pc \in {"after_stop", "restart_start"}
    THEN [r EXCEPT !.pc = "http2", !.to = listener]
  ELSE [r EXCEPT !.pc = "http1", !.to = listener]

\* start() that swallows the error of the start operation it awaited
RejectedSilently(r, err) == [r EXCEPT !.pc = "done", !.res = OkRes]

\* the caller's position after its start() has thrown
Rejected(r, err) == [r EXCEPT !.pc = "done", !.res = err]

\* ---- start() and the synchronous part of spawnWorker() ---------------------
\* spawn() either returns a child, or (env.spawnFails) returns a child object
\* that never ran and only emits 'error' later (ENOENT, EACCES, EAGAIN: no
\* 'exit' event, no 'error' listener in the manager), or throws
spawnWorker(t, tk, mq) ==
  LET k == nextOp IN
  /\ nextOp <= MaxOps
  /\ nextOp' = k + 1
  /\ startPromise' = k
  /\ \/ /\ process # 0
        /\ UNCHANGED <<process, ready, proc, listener>>
        /\ ensureBoundary([tk EXCEPT ![t].pc = WaitPc(tk[t]), ![t].op = k],
                          [op EXCEPT ![k] = [pc |-> "settled", attempt |-> 0, out |-> "ok", to |-> 0]],
                          Append(mq, Finally(k)))
     \/ /\ process = 0
        /\ ready' = FALSE
        /\ process' = k
        /\ \/ /\ proc' = [proc EXCEPT ![k] = "alive"]
              /\ listener' = IF listener = 0 THEN k ELSE listener
           \/ /\ env.spawnFails
              /\ proc' = [proc EXCEPT ![k] = "failed"]
              /\ UNCHANGED listener
        /\ ensureBoundary([tk EXCEPT ![t].pc = WaitPc(tk[t]), ![t].op = k,
                                     ![t].sp = IF tk[t].pc = "after_stop"
                                               THEN @ + 1 ELSE @],
                          [op EXCEPT ![k] = [pc |-> "probe", attempt |-> 0,
                                             out |-> "none", to |-> listener']],
                          mq)
     \/ /\ process = 0
        /\ env.spawnFails
        /\ ready' = FALSE
        /\ UNCHANGED <<process, proc, listener>>
        /\ ensureBoundary([tk EXCEPT ![t].pc = WaitPc(tk[t]), ![t].op = k],
                          [op EXCEPT ![k] = [pc |-> "settled", attempt |-> 0,
                                             out |-> "spawn", to |-> 0]],
                          Append(mq, Finally(k)))

\* start() without the check of this.startPromise
startNoDedup(t, sp, tk, mq) ==
  \/ /\ ready
     /\ startPromise' = sp
     /\ UNCHANGED <<process, ready, nextOp, proc, listener>>
     /\ ensureBoundary([tk EXCEPT ![t] = Returned(@)], op, mq)
  \/ /\ ~ready
     /\ spawnWorker(t, tk, mq)

\* start() without the check of this.ready
startNoReadyCheck(t, sp, tk, mq) ==
  \/ /\ sp # 0
     /\ startPromise' = sp
     /\ UNCHANGED <<process, ready, nextOp, proc, listener>>
     /\ ensureBoundary([tk EXCEPT ![t].pc = WaitPc(tk[t]), ![t].op = sp], op, mq)
  \/ /\ sp = 0
     /\ spawnWorker(t, tk, mq)

start(t, sp, tk, mq) ==
  \/ /\ ready
     /\ startPromise' = sp
     /\ UNCHANGED <<process, ready, nextOp, proc, listener>>
     /\ ensureBoundary([tk EXCEPT ![t] = Returned(@)], op, mq)
  \/ /\ ~ready
     /\ sp # 0
     /\ startPromise' = sp
     /\ UNCHANGED <<process, ready, nextOp, proc, listener>>
     /\ ensureBoundary([tk EXCEPT ![t].pc = WaitPc(tk[t]), ![t].op = sp], op, mq)
  \/ /\ ~ready
     /\ sp = 0
     /\ spawnWorker(t, tk, mq)

\* ---- stop() ----------------------------------------------------------------
Resolved(w, tk) == IF w = 0 THEN tk ELSE [tk EXCEPT ![w].pc = "after_stop"]
Did(w, tk, h) == IF w = 0 THEN tk ELSE [tk EXCEPT ![w].how = h]
Continue(w, mq) == IF w = 0 THEN mq ELSE Append(mq, Resume(w))
Timer(p, w) == [proc |-> p, waiter |-> w, resolved |-> FALSE]
Fired(p) == [proc |-> p, waiter |-> 0, resolved |-> TRUE]

\* stop() without setTimeout(cleanup, 2000)
stopNoTimer(w, tk, mq) ==
  \/ /\ process = 0
     /\ UNCHANGED <<process, ready, timers, killed>>
     /\ ensureBoundary(Resolved(w, Did(w, tk, "noop")), op, Continue(w, mq))
  \/ /\ process # 0
     /\ proc[process] # "alive"
     /\ process' = 0
     /\ ready' = FALSE
     /\ UNCHANGED <<timers, killed>>
     /\ ensureBoundary(Resolved(w, Did(w, tk, "dead")), op, Continue(w, mq))
  \/ /\ process # 0
     /\ proc[process] = "alive"
     /\ killed' = killed \cup {process}
     /\ UNCHANGED <<process, ready, timers>>
     /\ ensureBoundary(IF w = 0 THEN tk
                       ELSE [tk EXCEPT ![w].pc = "stopping", ![w].how = "signal"],
                       op, mq)

\* stop() without the try/catch around proc.kill(): the executor throws, the
\* promise rejects and the timer is never armed
KillFailed == ErrorOf(<<"kill">>)
stopUncaught(w, tk, mq) ==
  \/ /\ process = 0
     /\ UNCHANGED <<process, ready, timers, killed>>
     /\ ensureBoundary(Resolved(w, Did(w, tk, "noop")), op, Continue(w, mq))
  \/ /\ process # 0
     /\ proc[process] # "alive"
     /\ process' = 0
     /\ ready' = FALSE
     /\ UNCHANGED <<timers, killed>>
     /\ ensureBoundary(Resolved(w, Did(w, tk, "dead")), op, Continue(w, mq))
  \/ /\ process # 0
     /\ proc[process] = "alive"
     /\ \/ /\ killed' = killed \cup {process}
           /\ timers' = Append(timers, Timer(process, w))
           /\ UNCHANGED <<process, ready>>
           /\ ensureBoundary(IF w = 0 THEN tk
                             ELSE [tk EXCEPT ![w].pc = "stopping", ![w].how = "signal"],
                             op, mq)
        \/ /\ env.killThrows
           /\ UNCHANGED <<process, ready, killed, timers>>
           /\ ensureBoundary(IF w = 0 THEN tk
                             ELSE [tk EXCEPT ![w].pc = "done", ![w].how = "threw",
                                             ![w].res = KillFailed],
                             op, mq)

stop(w, tk, mq) ==
  \/ /\ process = 0
     /\ UNCHANGED <<process, ready, timers, killed>>
     /\ ensureBoundary(Resolved(w, Did(w, tk, "noop")), op, Continue(w, mq))
  \/ /\ process # 0
     /\ proc[process] # "alive"
     /\ process' = 0
     /\ ready' = FALSE
     /\ UNCHANGED <<timers, killed>>
     /\ ensureBoundary(Resolved(w, Did(w, tk, "dead")), op, Continue(w, mq))
  \/ /\ process # 0
     /\ proc[process] = "alive"
     /\ \/ /\ killed' = killed \cup {process}
           /\ timers' = Append(timers, Timer(process, w))
           /\ UNCHANGED <<process, ready>>
           /\ ensureBoundary(IF w = 0 THEN tk
                             ELSE [tk EXCEPT ![w].pc = "stopping", ![w].how = "signal"],
                             op, mq)
        \/ /\ env.killThrows
           /\ process' = 0
           /\ ready' = FALSE
           /\ timers' = Append(timers, Fired(process))
           /\ UNCHANGED killed
           /\ ensureBoundary(Resolved(w, Did(w, tk, "threw")), op, Continue(w, mq))

\* ---- macrotasks: calls from the application --------------------------------
CallStart(c) ==
  /\ micro = <<>>
  /\ task[c].pc = "idle"
  /\ start(c, startPromise, [task EXCEPT ![c].kind = "start"], micro)
  /\ UNCHANGED <<quitting, quits, killed, healthy, timers, env, payload, sim, budget, clsErr, clsOut>>

CallRequest(c) ==
  /\ micro = <<>>
  /\ task[c].pc = "idle"
  /\ LET tk == [task EXCEPT ![c].kind = "request"]
     IN IF ~ready
        THEN start(c, startPromise, tk, micro)
        ELSE /\ ensureBoundary([tk EXCEPT ![c].pc = "http1", ![c].to = listener],
                               op, micro)
             /\ UNCHANGED <<process, ready, startPromise, nextOp, proc, listener>>
  /\ UNCHANGED <<quitting, quits, killed, healthy, timers, env, payload, sim, budget, clsErr, clsOut>>

BeforeQuit ==
  /\ micro = <<>>
  /\ quits < MaxQuits
  /\ quitting' = TRUE
  /\ quits' = quits + 1
  /\ stop(0, task, micro)
  /\ UNCHANGED <<startPromise, nextOp, proc, listener, healthy, env, payload, sim, budget,
                 clsErr, clsOut>>

\* ---- the worker's failures ---------------------------------------------------
\* an HTTP call gets a response only from the child it was sent to
Answers(p) == p # 0 /\ proc[p] = "alive"
\* a call fails; under a budget of failures only while the budget lasts
Fails ==
  /\ budget # 0
  /\ budget' = IF budget > 0 THEN budget - 1 ELSE budget

\* ---- macrotasks: waitForReady ----------------------------------------------
HealthOk(k) ==
  /\ micro = <<>>
  /\ op[k].pc = "probe"
  /\ Answers(op[k].to)
  /\ ready' = TRUE
  /\ healthy' = healthy \cup {op[k].to}
  /\ ensureBoundary([task EXCEPT ![BTask(k)] =
                       [NoTask EXCEPT !.kind = "boundary", !.pc = "http1",
                                      !.to = listener]],
                    [op EXCEPT ![k].pc = "boundary", ![k].to = 0], micro)
  /\ UNCHANGED <<process, startPromise, quitting, quits, nextOp, proc, killed,
                 listener, timers, env, payload, sim, budget, clsErr, clsOut>>

HealthFail(k) ==
  /\ micro = <<>>
  /\ op[k].pc = "probe"
  /\ Fails
  /\ op' = [op EXCEPT ![k].pc = "sleep", ![k].to = 0]
  /\ UNCHANGED <<process, ready, startPromise, quitting, quits, nextOp, proc, killed,
                 listener, healthy, timers, micro, task, env, payload, sim, clsErr, clsOut>>

\* the loop of waitForReady with `attempt <= n` as its condition
NextAttemptOneMore(k, n) ==
  /\ micro = <<>>
  /\ op[k].pc = "sleep"
  /\ IF op[k].attempt + 1 <= n
     THEN /\ op' = [op EXCEPT ![k].pc = "probe", ![k].attempt = @ + 1,
                              ![k].to = listener]
          /\ UNCHANGED micro
     ELSE /\ op' = [op EXCEPT ![k].pc = "settled", ![k].attempt = @ + 1,
                              ![k].out = "fail"]
          /\ micro' = Append(micro, Finally(k))
  /\ UNCHANGED <<process, ready, startPromise, quitting, quits, nextOp, proc, killed,
                 listener, healthy, timers, task, env, payload, sim, budget, clsErr, clsOut>>

\* the 500 ms sleep of waitForReady is over: `attempt += 1`, then the loop
\* condition `attempt < n`, then the next probe or the throw
NextAttempt(k, n) ==
  /\ micro = <<>>
  /\ op[k].pc = "sleep"
  /\ IF op[k].attempt + 1 < n
     THEN /\ op' = [op EXCEPT ![k].pc = "probe", ![k].attempt = @ + 1,
                              ![k].to = listener]
          /\ UNCHANGED micro
     ELSE /\ op' = [op EXCEPT ![k].pc = "settled", ![k].attempt = @ + 1,
                              ![k].out = "fail"]
          /\ micro' = Append(micro, Finally(k))
  /\ UNCHANGED <<process, ready, startPromise, quitting, quits, nextOp, proc, killed,
                 listener, healthy, timers, task, env, payload, sim, budget, clsErr, clsOut>>

SleepDone(k) == NextAttempt(k, MaxAttempts)

\* ---- macrotasks: responses to performRequest -------------------------------
RespOk(t) ==
  /\ micro = <<>>
  /\ task[t].pc \in {"http1", "http2"}
  /\ Answers(task[t].to)
  /\ ensureBoundary([task EXCEPT ![t].pc = "done", ![t].res = OkRes, ![t].to = 0],
                    op, micro)
  /\ UNCHANGED <<process, ready, startPromise, quitting, quits, nextOp, proc, killed,
                 listener, healthy, timers, env, payload, sim, budget, clsErr, clsOut>>

\* request() that treats a failed retry like a failed first call
RespErrRetryAgain(t, e) ==
  /\ micro = <<>>
  /\ task[t].pc \in {"http1", "http2"}
  /\ e.status # 0 => Answers(task[t].to)
  /\ Fails
  /\ IF shouldAttemptRecovery(e)
     THEN stop(t, [task EXCEPT ![t].err1 = e, ![t].rs = @ + 1, ![t].to = 0], micro)
     ELSE /\ ensureBoundary([task EXCEPT ![t].pc = "done", ![t].err1 = e, ![t].to = 0,
                                         ![t].res = normalizeError(e)], op, micro)
          /\ UNCHANGED <<process, ready, timers, killed>>
  /\ UNCHANGED <<startPromise, quitting, quits, nextOp, proc, listener, healthy,
                 env, payload, sim, clsErr, clsOut>>

RespErr(t, e) ==
  /\ micro = <<>>
  /\ task[t].pc \in {"http1", "http2"}
  /\ e.status # 0 => Answers(task[t].to)
  /\ Fails
  /\ IF task[t].pc = "http2"
     THEN /\ ensureBoundary([task EXCEPT ![t].pc = "done", ![t].res = RawRes(e),
                                         ![t].to = 0], op, micro)
          /\ UNCHANGED <<process, ready, timers, killed>>
     ELSE IF shouldAttemptRecovery(e)
     THEN stop(t, [task EXCEPT ![t].err1 = e, ![t].rs = @ + 1, ![t].to = 0], micro)
     ELSE /\ ensureBoundary([task EXCEPT ![t].pc = "done", ![t].err1 = e, ![t].to = 0,
                                         ![t].res = normalizeError(e)], op, micro)
          /\ UNCHANGED <<process, ready, timers, killed>>
  /\ UNCHANGED <<startPromise, quitting, quits, nextOp, proc, listener, healthy,
                 env, payload, sim, clsErr, clsOut>>

\* ---- macrotasks: the child process and the stop() timer --------------------
\* the stop() invocations whose cleanup is still registered on child p
Waiting(p) == SelectSeq(timers, LAMBDA e : e.proc = p /\ ~e.resolved /\ e.waiter # 0)

RECURSIVE Resumes(_)
Resumes(es) == IF es = <<>> THEN <<>> ELSE <<Resume(Head(es).waiter)>> \o Resumes(Tail(es))

ProcExit(p) ==
  /\ micro = <<>>
  /\ proc[p] = "alive"
  /\ budget = -1 \/ p \in killed
  /\ proc' = [proc EXCEPT ![p] = "exited"]
  /\ listener' = IF listener = p THEN 0 ELSE listener
  /\ killed' = killed \ {p}
  /\ healthy' = healthy \ {p}
  /\ ready' = FALSE
  /\ process' = 0
  /\ startPromise' = IF quitting THEN startPromise ELSE 0
  /\ timers' = [i \in DOMAIN timers |->
                  IF timers[i].proc = p THEN Fired(p) ELSE timers[i]]
  /\ LET ws == Waiting(p)
     IN ensureBoundary([t \in Tasks |->
                          IF \E i \in DOMAIN ws : ws[i].waiter = t
                          THEN [task[t] EXCEPT !.pc = "after_stop"] ELSE task[t]],
                       op, micro \o Resumes(ws))
  /\ UNCHANGED <<quitting, quits, nextOp, env, payload, sim, budget, clsErr, clsOut>>

TimerFire ==
  /\ micro = <<>>
  /\ timers # <<>>
  /\ LET w == Head(timers).waiter
     IN ensureBoundary(Resolved(w, task), op, Continue(w, micro))
  /\ timers' = Tail(timers)
  /\ process' = 0
  /\ ready' = FALSE
  /\ UNCHANGED <<startPromise, quitting, quits, nextOp, proc, killed, listener,
                 healthy, env, payload, sim, budget, clsErr, clsOut>>

\* ---- microtasks ------------------------------------------------------------
RunFinally ==
  /\ micro # <<>>
  /\ Head(micro).m = "finally"
  /\ LET k == Head(micro).id
     IN /\ startPromise' = 0
        /\ ensureBoundary(
             [t \in Tasks |->
                IF t = BTask(k) THEN Closed
                ELSE IF task[t].op = k /\ task[t].pc \in {"await_start", "restart_start"}
                THEN IF op[k].out = "ok" THEN Returned(task[t])
                     ELSE Rejected(task[t], IF op[k].out = "spawn" THEN SpawnFailed
                                            ELSE StartFailed)
                ELSE task[t]],
             [op EXCEPT ![k] = Finished], Tail(micro))
  /\ UNCHANGED <<process, ready, quitting, quits, nextOp, proc, killed, listener,
                 healthy, timers, env, payload, sim, budget, clsErr, clsOut>>

restartWorker ==
  /\ micro # <<>>
  /\ Head(micro).m = "resume"
  /\ start(Head(micro).id, 0, [task EXCEPT ![Head(micro).id].how = "none"], Tail(micro))
  /\ UNCHANGED <<quitting, quits, killed, healthy, timers, env, payload, sim, budget, clsErr, clsOut>>

\* the settled promise reaches the caller (the IPC reply, the whenReady handler)
Settle ==
  /\ micro # <<>>
  /\ Head(micro).m = "reply"
  /\ task' = [task EXCEPT ![Head(micro).id] = Closed]
  /\ micro' = Tail(micro)
  /\ UNCHANGED <<process, ready, startPromise, quitting, quits, nextOp, op, proc,
                 killed, listener, healthy, timers, env, payload, sim, budget, clsErr, clsOut>>

Next ==
  \/ \E c \in Clients : CallStart(c)
  \/ \E c \in Clients : CallRequest(c)
  \/ BeforeQuit
  \/ \E k \in Ops : HealthOk(k)
  \/ \E k \in Ops : HealthFail(k)
  \/ \E k \in Ops : SleepDone(k)
  \/ \E t \in Tasks : RespOk(t)
  \/ \E t \in Tasks, e \in HttpErrors : RespErr(t, e)
  \/ \E p \in Ops : ProcExit(p)
  \/ TimerFire
  \/ RunFinally
  \/ restartWorker
  \/ Settle

Spec == Init /\ [][Next]_vars

\* the event loop eventually runs a due timer and every queued continuation
Microtask == RunFinally \/ restartWorker \/ Settle
SpecLive == Init /\ [][Next]_vars /\ WF_vars(TimerFire) /\ WF_vars(Microtask)

\* a worker that fails one call and never exits unless it is told to
InitFlaky ==
  /\ InitManager
  /\ env = [spawnFails |-> FALSE, killThrows |-> FALSE]
  /\ budget = 1
  /\ payload = "object"
  /\ sim = NoSim
  /\ clsErr = NoErr
  /\ clsOut = "none"

SpecFlaky == InitFlaky /\ [][Next]_vars

\* a platform on which proc.kill() may throw
InitKill ==
  /\ InitManager
  /\ env = [spawnFails |-> FALSE, killThrows |-> TRUE]
  /\ budget = -1
  /\ payload = "object"
  /\ sim = NoSim
  /\ clsErr = NoErr
  /\ clsOut = "none"

SpecKill == InitKill /\ [][Next]_vars

\* a machine on which child_process.spawn may fail
InitSpawnFail ==
  /\ InitManager
  /\ env = [spawnFails |-> TRUE, killThrows |-> FALSE]
  /\ budget = -1
  /\ payload = "object"
  /\ sim = NoSim
  /\ clsErr = NoErr
  /\ clsOut = "none"

SpecSpawnFail == InitSpawnFail /\ [][Next]_vars

\* callers that pass any payload value to request()
InitBridge ==
  /\ InitManager
  /\ env = [spawnFails |-> FALSE, killThrows |-> FALSE]
  /\ budget = -1
  /\ payload \in Payloads
  /\ sim = NoSim
  /\ clsErr = NoErr
  /\ clsOut = "none"

SpecBridge == InitBridge /\ [][Next]_vars

\* ---- shouldAttemptRecovery on its own ---------------------------------------
\* the errors performRequest can throw: an AxiosError with a response (axios
\* rejects every status outside 2xx), an AxiosError without one, a plain Error
Statuses == {300, 304, 400, 401, 403, 404, 409, 422, 429, 499,
             500, 501, 502, 503, 504, 599}
Bodies == {"empty", "text", "errors", "message"}
TransportCodes == {"ECONNREFUSED", "ECONNRESET", "ETIMEDOUT", "EPIPE", "ECONNABORTED",
                   "EHOSTUNREACH", "ENOTFOUND", "ERR_NETWORK", "ERR_CANCELED", "none"}
ErrDomain ==
  {AxErr(st, d, IF st >= 500 THEN "ERR_BAD_RESPONSE" ELSE "ERR_BAD_REQUEST") :
     st \in Statuses, d \in Bodies}
  \cup {AxErr(0, "empty", c) : c \in TransportCodes}
  \cup {NoErr}

InitClassify ==
  /\ InitManager
  /\ env = [spawnFails |-> FALSE, killThrows |-> FALSE]
  /\ budget = -1
  /\ payload = "object"
  /\ sim = NoSim
  /\ clsErr \in ErrDomain
  /\ clsOut = "none"

Classify ==
  /\ clsOut = "none"
  /\ clsOut' = IF shouldAttemptRecovery(clsErr) THEN "transient" ELSE "fatal"
  /\ UNCHANGED <<process, ready, startPromise, quitting, quits, nextOp, op, proc,
                 killed, listener, healthy, timers, micro, task, env, payload, sim, budget, clsErr>>

NextClassify == Classify

SpecClassify == InitClassify /\ [][NextClassify]_vars

\* ---- waitForReady on its own, with the probe budget of the source ------------
ProbeBudget == 60

\* the state start() leaves when it is called first: the child is spawned and
\* the first probe is on its way
InitProbe ==
  /\ process = 1
  /\ ready = FALSE
  /\ startPromise = 1
  /\ quitting = FALSE
  /\ quits = 0
  /\ nextOp = 2
  /\ op = [k \in Ops |-> IF k = 1 THEN [pc |-> "probe", attempt |-> 0,
                                       out |-> "none", to |-> 1]
                         ELSE NoOp]
  /\ proc = [k \in Ops |-> IF k = 1 THEN "alive" ELSE "none"]
  /\ killed = {}
  /\ listener = 1
  /\ healthy = {}
  /\ timers = <<>>
  /\ micro = <<>>
  /\ task = [t \in Tasks |-> IF t = 1 THEN [NoTask EXCEPT !.kind = "start",
                                                        !.pc = "await_start", !.op = 1]
                             ELSE NoTask]
  /\ env = [spawnFails |-> FALSE, killThrows |-> FALSE]
  /\ budget = -1
  /\ payload = "object"
  /\ sim = NoSim
  /\ clsErr = NoErr
  /\ clsOut = "none"

ProbeSleepDone == NextAttempt(1, ProbeBudget)

NextProbe ==
  \/ HealthOk(1)
  \/ HealthFail(1)
  \/ ProbeSleepDone
  \/ RunFinally

SpecProbe == InitProbe /\ [][NextProbe]_vars

\* ---- a validation error on its way from the worker to the renderer ----------
\* the rejection bodies of /mission/compile: {errors: [{message, line?}, ...]}
\* or {message}
NoLine == -1
MaxErrors == 2
Msgs == {"", "Unknown token", "Bad step"}
Lines == {NoLine, 1, 3}
ErrorItems == [message : Msgs, line : Lines]
ErrorLists == UNION {[1..n -> ErrorItems] : n \in 0..MaxErrors}
ErrorsBody(l) == [hasErrors |-> TRUE, errors |-> l, hasMessage |-> FALSE, message |-> ""]
MessageBody(m) == [hasErrors |-> FALSE, errors |-> <<>>, hasMessage |-> TRUE, message |-> m]
RejectionBodies == {ErrorsBody(l) : l \in ErrorLists} \cup {MessageBody(m) : m \in Msgs}

\* JSON.parse: only a text that JSON.stringify wrote, and nothing around it,
\* parses
JSONparse(text) ==
  IF Len(text) = 2 /\ text[1] = "json"
  THEN [ok |-> TRUE, value |-> text[2]]
  ELSE [ok |-> FALSE, value |-> MessageBody("")]

\* ipcRenderer.invoke rejecting with the error the handler threw: Electron
\* builds a new Error around the text of the original one; a delivery of the
\* message as it is, is kept beside it
IpcModes == {"prefixed", "verbatim"}
invoke(mode, message) ==
  IF mode = "prefixed"
  THEN <<"Error invoking remote method 'mission:compile': Error: ">> \o message
  ELSE message

\* what handleCompile's catch branch hands to setErrors
NotShown == [shown |-> "none", items |-> <<>>, text |-> <<>>]
Raw(message) == [shown |-> "raw", items |-> <<>>, text |-> message]
List(items) == [shown |-> "list", items |-> items, text |-> <<>>]
handleCompile(message) ==
  LET parsed == JSONparse(message) IN
  IF ~parsed.ok THEN Raw(message)
  ELSE IF parsed.value.hasErrors
    THEN List([i \in DOMAIN parsed.value.errors |->
                 [message |-> parsed.value.errors[i].message,
                  line |-> parsed.value.errors[i].line]])
  ELSE IF parsed.value.hasMessage /\ parsed.value.message # ""
    THEN List(<<[message |-> parsed.value.message, line |-> NoLine]>>)
  ELSE Raw(message)

InitRoundTrip ==
  /\ InitManager
  /\ env = [spawnFails |-> FALSE, killThrows |-> FALSE]
  /\ budget = -1
  /\ payload = "object"
  /\ sim = NoSim
  /\ clsErr \in {AxErr(422, b, "ERR_BAD_REQUEST") : b \in RejectionBodies}
  /\ clsOut = NotShown

\* request() throws new Error(JSON.stringify(data)); the rejection crosses
\* ipcMain.handle / ipcRenderer.invoke; handleCompile decodes its message
RoundTrip ==
  /\ clsOut.shown = "none"
  /\ \E mode \in IpcModes :
       clsOut' = handleCompile(invoke(mode, ErrorOf(Stringify(clsErr.data)).msg))
  /\ UNCHANGED <<process, ready, startPromise, quitting, quits, nextOp, op, proc,
                 killed, listener, healthy, timers, micro, task, env, payload, sim, budget, clsErr>>

NextRoundTrip == RoundTrip

SpecRoundTrip == InitRoundTrip /\ [][NextRoundTrip]_vars

\* ---- simulation playback of the renderer (App component) ---------------------
\* lengths are whole metres, times whole seconds
MaxSegments == 2
MaxLength == 2
MaxDwell == 2
MaxDelta == 2
MaxSpeed == 2

\* the fields of PythonManager, which playback never touches
managerVars == <<process, ready, startPromise, quitting, quits, nextOp, op, proc,
                 killed, listener, healthy, timers, micro, task, env, payload,
                 budget, clsErr, clsOut>>

\* computeSegments(result.waypoints): one length >= 0 per pair of waypoints
SegmentLists ==
  UNION {[1..n -> 0..MaxLength] : n \in 0..MaxSegments}
\* dwellMap of a mission with n segments: duration by waypoint index (0 = no
\* dwell event there); index 0 is never looked up
DwellMaps(n) == [1..n -> 0..MaxDwell]

\* handleCompile has received the compiled mission: setSimulation({...})
Compile(segs, dw, sp) ==
  /\ sim' = [loaded |-> TRUE, segments |-> segs, dwell |-> dw,
             currentIndex |-> 0, progress |-> 0, active |-> FALSE,
             speed |-> sp, multiplier |-> sim.multiplier, dwellQueue |-> 0]
  /\ UNCHANGED managerVars

\* the effect on speedMultiplier
SetMultiplier(m) ==
  /\ sim.loaded
  /\ sim.multiplier # m
  /\ sim' = [sim EXCEPT !.multiplier = m]
  /\ UNCHANGED managerVars

\* the while loop of tick: [i, rem, dq] after it ran from index i with rem left
RECURSIVE Advance(_, _, _)
Advance(s, i, rem) ==
  IF i < Len(s.segments) /\ rem >= s.segments[i + 1]
  THEN IF s.dwell[i + 1] # 0
       THEN [i |-> i + 1, rem |-> 0, dq |-> s.dwell[i + 1]]
       ELSE Advance(s, i + 1, rem - s.segments[i + 1])
  ELSE [i |-> i, rem |-> rem, dq |-> s.dwellQueue]

\* the updater of tick without the test `currentIndex >= maxIndex`
EndOfPathIgnored(s, a) ==
  [s EXCEPT !.currentIndex = a.i, !.progress = a.rem, !.dwellQueue = a.dq]

\* the end of the updater of tick, after the loop
EndOfPath(s, a) ==
  IF a.i >= Len(s.segments)
  THEN [s EXCEPT !.currentIndex = Len(s.segments), !.progress = 0,
                 !.active = FALSE, !.dwellQueue = 0]
  ELSE [s EXCEPT !.currentIndex = a.i, !.progress = a.rem, !.dwellQueue = a.dq]

\* one animation frame, delta seconds after the previous one
tick(delta) ==
  /\ sim.loaded /\ sim.active
  /\ sim' = IF sim.dwellQueue > 0
            THEN [sim EXCEPT !.dwellQueue = IF @ - delta > 0 THEN @ - delta ELSE 0]
            ELSE EndOfPath(sim, Advance(sim, sim.currentIndex,
                                        sim.speed * sim.multiplier * delta
                                          + sim.progress))
  /\ UNCHANGED managerVars

togglePlay ==
  /\ sim.loaded
  /\ sim' = IF sim.currentIndex >= Len(sim.segments)
            THEN [sim EXCEPT !.currentIndex = 0, !.progress = 0, !.active = TRUE,
                             !.dwellQueue = 0]
            ELSE [sim EXCEPT !.active = ~sim.active]
  /\ UNCHANGED managerVars

stepForward ==
  /\ sim.loaded
  /\ sim' = [sim EXCEPT
               !.currentIndex = IF @ + 1 < Len(sim.segments) THEN @ + 1
                                ELSE Len(sim.segments),
               !.progress = 0, !.active = FALSE]
  /\ UNCHANGED managerVars

resetSimulation ==
  /\ sim.loaded
  /\ sim' = [sim EXCEPT !.currentIndex = 0, !.progress = 0, !.active = FALSE,
                        !.dwellQueue = 0]
  /\ UNCHANGED managerVars

InitPlay ==
  /\ InitManager
  /\ env = [spawnFails |-> FALSE, killThrows |-> FALSE]
  /\ budget = -1
  /\ payload = "object"
  /\ sim = NoSim
  /\ clsErr = NoErr
  /\ clsOut = "none"

NextPlay ==
  \/ \E segs \in SegmentLists, sp \in 1..MaxSpeed :
       \E dw \in DwellMaps(Len(segs)) : Compile(segs, dw, sp)
  \/ \E m \in 1..2 : SetMultiplier(m)
  \/ \E delta \in 0..MaxDelta : tick(delta)
  \/ togglePlay
  \/ stepForward
  \/ resetSimulation

SpecPlay == InitPlay /\ [][NextPlay]_vars

\* ---- observations ------------------------------------------------------------
\* number of spawn() calls so far; children that have not exited
SpawnCount == Cardinality({p \in Ops : proc[p] # "none"})
Alive == {p \in Ops : proc[p] = "alive"}
\* spawnWorker() executions that have not settled
InFlight == {k \in Ops : op[k].pc \in {"probe", "sleep", "boundary"}}
\* WorkerState Idle
Idle == process = 0 /\ ~ready /\ startPromise = 0
\* this step is caller c invoking start()
StartCalled(c) == task[c].pc = "idle" /\ task'[c].kind = "start"
\* this step is caller c invoking request()
RequestCalled(c) == task[c].pc = "idle" /\ task'[c].kind = "request"

\* ---- claims ------------------------------------------------------------------

\* C1: single-flight start. A start() invoked while Idle calls spawn exactly once
\* and becomes the shared start operation; a start() invoked while that operation
\* is pending spawns nothing, begins no operation and awaits the same one; the
\* callers that awaited one operation settle together with the same outcome.
C1_SingleFlight ==
  [][/\ \A c \in Clients : StartCalled(c) =>
          /\ Idle => /\ SpawnCount' = SpawnCount + 1
                     /\ startPromise' # 0
                     /\ task'[c].op = startPromise'
                     /\ task'[c].pc = "await_start"
          /\ (~ready /\ startPromise # 0) =>
                     /\ SpawnCount' = SpawnCount
                     /\ nextOp' = nextOp
                     /\ startPromise' = startPromise
                     /\ task'[c].op = startPromise
                     /\ task'[c].pc = "await_start"
     /\ \A c1, c2 \in Clients :
          (/\ task'[c1].kind = "start" /\ task'[c2].kind = "start"
           /\ task'[c1].op # 0 /\ task'[c1].op = task'[c2].op
           /\ task'[c1].pc = "done")
          => (task'[c2].pc = "done" /\ task'[c2].res = task'[c1].res)]_vars

C1_Witness ==
  \E c1, c2 \in Clients :
    /\ c1 # c2
    /\ task[c1].kind = "start" /\ task[c2].kind = "start"
    /\ task[c1].pc = "done" /\ task[c2].pc = "done"
    /\ task[c1].op # 0 /\ task[c1].op = task[c2].op
    /\ SpawnCount = 1

\* C2: at most one start operation (un-settled spawnWorker execution) exists at
\* any time, and a start() that arrives while one is in flight begins no new
\* operation and, if it waits, waits for the one in flight.
C2_OneStartOperation ==
  [][/\ Cardinality(InFlight') <= 1
     /\ \A c \in Clients : (StartCalled(c) /\ InFlight # {}) =>
          /\ nextOp' = nextOp
          /\ task'[c].pc = "await_start" => task'[c].op \in InFlight]_vars

\* C3: spawn is never called while a child spawned earlier is still alive.
C3_NoDuplicateWorker ==
  [][SpawnCount' > SpawnCount => Alive = {}]_vars

\* this step is task t sending the HTTP call of performRequest
Sends(t) == task'[t].pc \in {"http1", "http2"} /\ task'[t].pc # task[t].pc
\* the child spawned last (0 before the first spawn)
Latest == IF SpawnCount = 0 THEN 0
          ELSE CHOOSE p \in Ops : proc[p] # "none" /\ \A q \in Ops : proc[q] # "none" => q <= p

\* C4: no call is dispatched to a not-yet-ready worker. Whenever a request()
\* (a caller's, the reconciliation call's, or a retry) sends its HTTP call and no
\* older child is running beside the current one, the child spawned last has
\* answered a /health probe.
C4_NoDispatchToUnreadyWorker ==
  [][\A t \in Tasks : (Sends(t) /\ Alive' \subseteq {Latest'}) => Latest' \in healthy']_vars

\* C5: when the only call the worker ever failed is the caller's first call,
\* answered with a 5xx status, request() resolves with the success payload after
\* exactly one restartWorker() whose start() spawned exactly one more child.
C5_OneRestartThenSuccess ==
  \A c \in Clients :
    (/\ task[c].kind = "request" /\ task[c].pc = "done"
     /\ task[c].err1 = E5xx /\ budget = 0)
    => (task[c].res = OkRes /\ task[c].rs = 1 /\ task[c].sp = 1)

\* the errors the spec calls transient: a 5xx response or a connection failure
Transient == {E5xx, EConn}
\* what a failed retry rejects with
Propagated == {RawRes(e) : e \in HttpErrors}

\* C6 as stated: every request() whose first call failed with a transient error
\* went through one restart and sent its retry, so it settles with the retry's
\* result.
C6_AlwaysRetried ==
  \A t \in Tasks :
    (task[t].pc = "done" /\ task[t].err1 \in Transient)
    => (task[t].rs = 1 /\ task[t].res \in ({OkRes} \cup Propagated))

\* C6 amended: a transient failure of the first call triggers exactly one
\* restartWorker(); the retry is sent once, and only after the start() of that
\* restart has returned; a failed retry rejects with its own error and nothing
\* follows; when the start() of the restart throws, request() rejects with the
\* startup error and sends no retry.
C6_OneRestartOneRetry ==
  [][\A t \in Tasks :
       /\ task'[t].rs <= 1
       /\ (task[t].pc = "http1" /\ task'[t].err1 \in Transient)
            => (task'[t].rs = 1 /\ task'[t].pc \in {"stopping", "after_stop"})
       /\ (task'[t].pc = "http2" /\ task[t].pc # "http2")
            => (task[t].pc \in {"after_stop", "restart_start"} /\ task[t].rs = 1)
       /\ task[t].pc = "http2" => task'[t].pc \in {"http2", "done"}
       /\ (task[t].pc = "http2" /\ task'[t].pc = "done")
            => (task'[t].res \in ({OkRes} \cup Propagated) /\ task'[t].rs = 1)
       /\ (task[t].pc = "restart_start" /\ task'[t].pc = "done")
            => task'[t].res = StartFailed
       /\ task[t].pc = "done" => task'[t].pc \in {"done", "closed"}]_vars

C6_Witness ==
  \E t \in Tasks :
    /\ task[t].pc = "done" /\ task[t].rs = 1 /\ task[t].err1 \in Transient
    /\ task[t].res \in Propagated

\* C7: a 4xx validation error on the first call makes request() reject with the
\* serialized body of that response, and nothing is restarted: no stop(), no
\* spawn, process and ready as they were.
C7_ValidationErrorUnmodified ==
  [][\A t \in Tasks :
       (task[t].pc = "http1" /\ task'[t].err1 \in {E4xx, E422})
       => /\ task'[t].pc = "done"
          /\ task'[t].res = ErrorOf(<<"json", task'[t].err1.data>>)
          /\ task'[t].rs = 0
          /\ process' = process /\ ready' = ready /\ startPromise' = startPromise
          /\ proc' = proc /\ killed' = killed /\ timers' = timers]_vars

C7_Witness ==
  \E c \in Clients :
    /\ task[c].kind = "request" /\ task[c].pc = "done"
    /\ task[c].err1 = E4xx /\ task[c].res = ErrorOf(<<"json", "errors">>)
    /\ ready /\ process # 0

\* the classification the spec gives: a 5xx status or one of the three
\* connection failures is transient, everything else is fatal
ClaimTransient(e) ==
  \/ e.status >= 500
  \/ e.code \in {"ECONNREFUSED", "ECONNRESET", "ETIMEDOUT"}

\* C8: shouldAttemptRecovery answers true exactly for an error with a response
\* status >= 500 or with a refused, reset or timed-out connection; every other
\* error performRequest can throw is fatal.
C8_Classification ==
  clsOut # "none" => (clsOut = "transient" <=> ClaimTransient(clsErr))

C8_Witness ==
  /\ clsOut = "transient"
  /\ clsErr.status = 503

\* this step spawns a child inside a start() made for caller c
SpawnsFor(c) == SpawnCount' > SpawnCount /\ task'[c].op = nextOp /\ task[c].op # nextOp
\* request() of caller c was invoked while ready and has not yet restarted
IssuedReady(c) ==
  \/ RequestCalled(c) /\ ready
  \/ task[c].kind = "request" /\ task[c].pc # "idle" /\ task[c].op = 0

\* C9 as stated: a request() issued while Ready never triggers a spawn.
C9_ReadyRequestNeverSpawns ==
  [][\A c \in Clients : IssuedReady(c) => ~SpawnsFor(c)]_vars

\* C9 amended: a request() issued while Ready sends its HTTP call at once, with
\* no spawn and no start operation; it triggers a spawn only in the
\* restartWorker() that follows a transient failure of that call.
C9_ReadyRequestSpawnsOnlyInRestart ==
  [][\A c \in Clients :
       /\ (RequestCalled(c) /\ ready)
            => /\ task'[c].pc = "http1"
               /\ SpawnCount' = SpawnCount /\ nextOp' = nextOp
               /\ process' = process /\ startPromise' = startPromise
       /\ (IssuedReady(c) /\ SpawnsFor(c))
            => (task[c].pc = "after_stop" /\ task[c].err1 \in Transient)]_vars

C9_Witness ==
  \E c \in Clients :
    /\ task[c].kind = "request" /\ task[c].pc = "http1" /\ task[c].op = 0
    /\ ready /\ SpawnCount = 1

\* this step is the stop() of restartWorker in request() t / of before-quit
StopCalledBy(t) == task'[t].rs > task[t].rs
StopCalled == quits' > quits \/ \E t \in Tasks : StopCalledBy(t)

\* C10: stop() is idempotent and never throws. A stop() that completes leaves
\* process = null; a stop() called with process = null sends no signal, arms no
\* timer, changes no field and resolves; every stop() resolves, also when
\* proc.kill() throws.
C10_StopIdempotent ==
  [][/\ (StopCalled /\ process = 0)
          => /\ process' = 0 /\ ready' = ready /\ startPromise' = startPromise
             /\ killed' = killed /\ timers' = timers /\ proc' = proc
     /\ \A t \in Tasks :
          /\ StopCalledBy(t) => task'[t].pc \in {"stopping", "after_stop"}
          /\ (StopCalledBy(t) /\ process = 0) => task'[t].pc = "after_stop"
          /\ task[t].pc = "stopping" => task'[t].pc \in {"stopping", "after_stop"}
          /\ (task'[t].pc = "after_stop" /\ task[t].pc # "after_stop")
               => process' = 0
          /\ (StopCalledBy(t) /\ task'[t].how = "threw")
               => (task'[t].pc = "after_stop" /\ process' = 0 /\ ~ready')]_vars

C10_Witness ==
  \E t \in Tasks :
    /\ task[t].pc = "after_stop" /\ task[t].how = "noop"
    /\ \E i \in DOMAIN timers : timers[i].resolved

\* the model has no spawnWorker execution left for the start() that is due
OutOfOps == micro # <<>> /\ Head(micro).m = "resume" /\ ~ready /\ nextOp > MaxOps
\* this step is the 2 s timer of a stop() firing
TimerFired == Len(timers') < Len(timers)

\* C11: stop() always completes. A stop() that sent the signal resolves at the
\* arms its 2 s timer in the same step and resolves at the latest when that
\* timer fires, whether or not the child has exited; the fields after the
\* timer's step are process = null and ready = false.
C11_StopCompletesOnTimeout ==
  /\ [][TimerFired =>
          /\ process' = 0 /\ ~ready'
          /\ \A t \in Tasks :
               (task[t].pc = "stopping" /\ Head(timers).waiter = t)
               => (task'[t].pc = "after_stop" /\ Head(micro') = Resume(t))]_vars
  /\ [][\A t \in Tasks :
          (task'[t].pc = "stopping" /\ task[t].pc # "stopping")
          => \E i \in DOMAIN timers' : timers'[i] = Timer(process, t)]_vars
  /\ \A t \in Tasks : task[t].pc = "stopping" ~> (task[t].pc # "stopping" \/ OutOfOps)

C11_Witness ==
  \E t \in Tasks :
    /\ task[t].pc = "after_stop" /\ task[t].how = "signal"
    /\ SpawnCount = 1 /\ \A p \in Ops : proc[p] # "none" => proc[p] = "alive"
    /\ quits = 0
    /\ process = 0 /\ ~ready

\* this step settles start operation k as failed (its finally callback runs)
StartFailedNow(k) == op[k].pc = "settled" /\ op[k].out = "fail" /\ op'[k].pc = "finished"

\* C12: when a start operation fails on the probe budget the fields are back
\* at Idle (process = null, ready = false, startPromise = null), and a start()
\* invoked with no worker ready and no start in flight spawns a child.
C12_FailedStartRetriesFromIdle ==
  [][/\ \A k \in Ops : StartFailedNow(k) => Idle'
     /\ \A c \in Clients :
          (StartCalled(c) /\ ~ready /\ startPromise = 0)
          => SpawnCount' = SpawnCount + 1]_vars

\* this step is the reconciliation call of start operation k failing
BoundaryFails(k) == task[BTask(k)].err1 = NoErr /\ task'[BTask(k)].err1 # NoErr

\* C13: a failure of the reconciliation call never fails startup. Whatever the
\* call fails with, the worker that passed the probe is left as it is (no
\* signal, no timer, process and ready unchanged), and the start operation
\* leaves ensureBoundary only by resolving.
C13_BoundaryFailureNotEscalated ==
  [][\A k \in Ops :
       /\ BoundaryFails(k)
            => /\ process' = process /\ ready' = ready
               /\ killed' = killed /\ timers' = timers
       /\ (op[k].pc = "boundary" /\ op'[k].pc # "boundary")
            => (op'[k].pc = "settled" /\ op'[k].out = "ok")]_vars

\* what normalizeError can return for a failed HTTP call
Normalized == {normalizeError(e) : e \in HttpErrors}

\* C14: every error request() rejects a caller with is the output of
\* normalizeError for the failed HTTP call (or the startup error of a start()
\* it awaited), never the raw error of the HTTP library, on the first call and
\* on the retry alike.
C14_RejectionsNormalized ==
  \A c \in Clients :
    (task[c].kind = "request" /\ task[c].pc = "done" /\ task[c].res.k = "err")
    => task[c].res \in (Normalized \cup {StartFailed})

\* the list the claim expects the renderer to show for a rejection body
Expected(body) ==
  IF body.hasErrors THEN body.errors
  ELSE <<[message |-> body.message, line |-> NoLine]>>

\* C15: a structured validation error round-trips unaltered: the renderer
\* shows exactly the items of {errors: [...]}, in order, and exactly one item
\* with the message of {message}.
C15_ValidationErrorsRoundTrip ==
  clsOut.shown # "none"
  => (clsOut.shown = "list" /\ clsOut.items = Expected(clsErr.data))

\* WorkerState derived from the fields: a stop is in progress while the
\* referenced child has been sent the signal; a start is in flight while
\* startPromise is set
Stopping == process # 0 /\ process \in killed
Ready == ready /\ process # 0 /\ ~Stopping
Starting == ~ready /\ process # 0 /\ startPromise # 0 /\ ~Stopping
WorkerState ==
  IF Stopping THEN "Stopping"
  ELSE IF Ready THEN "Ready"
  ELSE IF Starting THEN "Starting"
  ELSE IF Idle THEN "Idle"
  ELSE "None"
Transitions ==
  {<<"Idle", "Starting">>, <<"Starting", "Ready">>, <<"Starting", "Idle">>,
   <<"Ready", "Idle">>, <<"Ready", "Stopping">>, <<"Stopping", "Idle">>}

\* C16: the fields always describe exactly one of Idle, Starting, Ready,
\* Stopping, and every change of that state is one of the six transitions of
\* the state machine.
C16_StateMachine ==
  [][/\ WorkerState' # "None"
     /\ WorkerState' # WorkerState => <<WorkerState, WorkerState'>> \in Transitions]_vars

\* C17: a stop() invoked while a start operation is in flight is queued: it
\* sends no termination signal in that step, and when a stop() completes no
\* start operation is still running.
C17_StopQueuedWhileStarting ==
  [][/\ (StopCalled /\ InFlight # {}) => killed' = killed
     /\ (TimerFired \/ \E t \in Tasks : task'[t].pc = "after_stop" /\ task[t].pc # "after_stop")
          => InFlight' = {}]_vars

\* C18: while a stop() is in progress start() and request() are queued: a
\* start() invoked then does not return at once as already ready, and a
\* request() invoked then does not send its HTTP call in that step.
C18_QueuedWhileStopping ==
  [][\A c \in Clients :
       /\ (Stopping /\ StartCalled(c)) => task'[c].pc # "done"
       /\ (Stopping /\ RequestCalled(c)) => task'[c].pc # "http1"]_vars

\* C19: a start operation whose child has exited before any probe succeeded
\* never reports success: it does not pass the health probe afterwards.
C19_ExitWhileStartingFailsStart ==
  [][\A k \in Ops :
       (op[k].pc \in {"probe", "sleep"} /\ proc[k] = "exited")
       => op'[k].pc \in {"probe", "sleep", "settled"} /\ op'[k].out # "ok"]_vars

\* this step is the referenced worker exiting although no stop() signalled it
Crash(p) == process = p /\ p \notin killed /\ proc[p] = "alive" /\ proc'[p] = "exited"

\* C20: crash recovery is lazy. When the worker exits unexpectedly while Ready
\* the exit handler leaves the fields at Idle (process = null, ready = false,
\* no start in flight); a request() invoked in Idle with no child alive runs a
\* start of its own (it spawns and awaits that start operation) and sends its
\* HTTP call only when the operation it awaited has succeeded.
C20_LazyRecovery ==
  [][/\ \A p \in Ops : (Ready /\ Crash(p)) => Idle'
     /\ \A c \in Clients :
          /\ (RequestCalled(c) /\ Idle /\ Alive = {})
               => /\ SpawnCount' = SpawnCount + 1
                  /\ task'[c].pc = "await_start" /\ task'[c].op = nextOp
          /\ (task[c].kind = "request" /\ task[c].pc = "await_start"
              /\ task'[c].pc = "http1")
               => op[task[c].op].out = "ok"]_vars

\* C21: start() invoked while ready returns immediately and changes nothing:
\* no spawn, no start operation, no probe, no reconciliation call, no signal,
\* and process, ready and startPromise are unchanged.
C21_StartWhileReadyIsNoOp ==
  [][\A c \in Clients :
       (StartCalled(c) /\ ready)
       => /\ task'[c].pc = "done" /\ task'[c].res = OkRes
          /\ process' = process /\ ready' = ready /\ startPromise' = startPromise
          /\ nextOp' = nextOp /\ op' = op /\ proc' = proc
          /\ killed' = killed /\ timers' = timers
          /\ \A k \in Ops : task'[BTask(k)] = task[BTask(k)]]_vars

C21_Witness ==
  \E c \in Clients :
    /\ task[c].kind = "start" /\ task[c].pc = "done" /\ task[c].op = 0
    /\ ready /\ process # 0 /\ SpawnCount = 1

\* C22: waitForReady issues at most 60 /health calls; the first success sets
\* ready and ends the loop with no further probe; only the failure of the 60th
\* call makes it throw, ready is set by nothing but a successful probe, and the
\* awaiting start() then rejects with the startup error.
C22_ProbeBudget ==
  [][/\ op'[1].pc = "probe" => op'[1].attempt + 1 <= 60
     /\ (op[1].pc = "probe" /\ op'[1].pc # "probe")
          => \/ op'[1].pc = "boundary" /\ ready'
             \/ op'[1].pc = "sleep" /\ ~ready'
     /\ op[1].pc = "boundary" => op'[1].pc \notin {"probe", "sleep"}
     /\ op[1].pc = "sleep"
          => (IF op[1].attempt + 1 = 60
              THEN op'[1].pc = "settled" /\ op'[1].out = "fail" /\ ~ready'
              ELSE op'[1].pc = "probe" /\ op'[1].attempt = op[1].attempt + 1)
     /\ (op[1].out = "fail" /\ task'[1].pc = "done")
          => (task'[1].res = StartFailed /\ ~ready')]_vars

C22_Witness ==
  /\ op[1].pc = "settled" /\ op[1].out = "fail" /\ op[1].attempt = 60
  /\ ~ready

\* the start operation k has been abandoned: stop() has signalled the child it
\* probes, or that child has exited
Abandoned(k) == k \in killed \/ proc[k] = "exited"

\* C23: the readiness probe is cancelled when its start operation is
\* abandoned. After stop() was called during Starting, or after the probed
\* process has exited, the probe loop of that operation issues no further
\* /health call and never sets ready to true.
C23_ProbeCancelled ==
  [][\A k \in Ops :
       (op[k].pc \in {"probe", "sleep"} /\ Abandoned(k))
       => /\ ~(op[k].pc = "sleep" /\ op'[k].pc = "probe")
          /\ ~(op'[k].pc = "boundary" /\ ready')]_vars

\* the start operation k could not create its worker process
SpawnError(k) == op[k].out = "spawn" \/ proc[k] = "failed"
\* the start operation k is completed: its finally handler runs
Completes(k) == op[k].pc = "settled" /\ op'[k].pc = "finished"
\* the start() invocations that await the start operation k
Awaiting(k) ==
  {c \in Clients : task[c].kind = "start" /\ task[c].op = k
                   /\ task[c].pc = "await_start"}

\* C24: when the worker process cannot be created (executable not found, the
\* OS refuses), the start attempt fails with a spawn error that reaches the
\* start() caller, and the supervisor is left Idle with no process reference.
C24_SpawnErrorLeavesIdle ==
  [][\A k \in Ops :
       (SpawnError(k) /\ Completes(k))
       => /\ op[k].out # "ok"
          /\ \A c \in Awaiting(k) : task'[c].pc = "done" /\ task'[c].res = SpawnFailed
          /\ process' = 0 /\ ~ready' /\ startPromise' = 0]_vars

\* no invocation of a caller is in progress
NoCaller == \A c \in Clients : task[c].pc \in {"idle", "done", "closed"}
\* a caller invokes start() or request()
Called == \E c \in Clients : StartCalled(c) \/ RequestCalled(c)
\* a child process is created; a /health call is issued
Spawned == SpawnCount' > SpawnCount
ProbeIssued == \E k \in Ops : op[k].pc # "probe" /\ op'[k].pc = "probe"

QuitStopDone ==
  /\ quitting
  /\ \A i \in DOMAIN timers : timers[i].waiter = 0 => timers[i].resolved

\* C26: clean shutdown. Once the before-quit handler has run and its stop()
\* has completed, every worker process ever spawned has exited or has been
\* sent a termination signal, and no worker process is spawned afterwards.
C26_CleanShutdown ==
  [][QuitStopDone => /\ \A p \in Alive : p \in killed
                     /\ ~Spawned]_vars

\* C27: the 2 s timer of a stop() that has already completed through the exit
\* of its child has no effect when it fires: it changes neither process nor
\* ready, so it never clears the handle or the readiness of a later worker.
C27_StaleTimerHasNoEffect ==
  [][(TimerFired /\ Head(timers).resolved)
       => (process' = process /\ ready' = ready)]_vars

\* the child p exits while a newer worker is the current one
StaleExit(p) ==
  /\ proc[p] = "alive" /\ proc'[p] = "exited"
  /\ process # 0 /\ process # p

\* C28: the exit event of a worker process that is no longer the current one
\* (its stop() completed by timeout, it exits after a newer worker was
\* spawned) does not modify the state of the newer worker: process, ready and
\* the start operation in flight are unchanged.
C28_StaleExitIgnored ==
  [][\A p \in Ops :
       StaleExit(p) => /\ process' = process
                       /\ ready' = ready
                       /\ startPromise' = startPromise]_vars

\* start() of client c is pending, nobody else has called, no shutdown
OneStart(c) ==
  /\ task[c].kind = "start" /\ task[c].pc = "await_start"
  /\ \A d \in Clients \ {c} : task[d].pc = "idle"
  /\ quits = 0
\* a restartWorker() whose stop() has resolved is about to run
\* `this.startPromise = null; await this.start()` with no worker, i.e. to spawn
SpawnDue ==
  /\ micro # <<>> /\ Head(micro).m = "resume"
  /\ ~ready /\ process = 0

\* C29: every start() invocation settles whatever the worker does, also when
\* /health succeeds and /boundary/cache always fails with a 5xx status or a
\* connection error, and the spawns one start() invocation causes are bounded:
\* a single pending start(), with no other caller and no shutdown, never comes
\* to need one more worker after MaxOps workers were spawned for it.
C29_BoundedSpawnsPerStart ==
  \A c \in Clients : (OneStart(c) /\ SpawnDue) => SpawnCount < MaxOps

\* the start() awaited by t (a caller's start(), the start() inside request()
\* or inside restartWorker()) returns without throwing
StartResolved(t) ==
  \/ /\ task'[t].kind = "start"
     /\ task[t].pc # "done" /\ task'[t].pc = "done" /\ task'[t].res = OkRes
  \/ /\ task[t].kind \in {"request", "boundary"}
     /\ task[t].pc \in {"after_stop", "await_start", "restart_start"}
     /\ task'[t].pc \in {"http1", "http2"}

\* C30: postcondition of start(). Whenever a start() promise resolves
\* successfully (from any state, after an earlier failed start, during another
\* caller's restart, or called by restartWorker), ready is true and process
\* references a live worker that has answered a health probe.
C30_StartPostcondition ==
  [][\A t \in Tasks :
       StartResolved(t) => /\ ready'
                           /\ process' # 0
                           /\ proc'[process'] = "alive"
                           /\ process' \in healthy']_vars

\* C31: handle/readiness consistency. In every reachable state ready = true
\* implies that process is non-null and is the live process that answered the
\* successful health probe; process = null implies that no spawned process is
\* still alive, except one that was signalled by a stop() which completed by
\* timeout.
C31_HandleReadyConsistent ==
  /\ ready => /\ process # 0
              /\ proc[process] = "alive"
              /\ process \in healthy
  /\ process = 0 => \A p \in Alive : p \in killed

\* the payload argument of the request() invocation t
PayloadOf(t) == IF task[t].kind = "boundary" THEN "empty" ELSE payload
\* a payload is given: an object, with or without keys
Given(pl) == pl \in {"empty", "object"}

\* C32: each performRequest performs exactly one HTTP round trip, a POST when a
\* payload is given and a GET otherwise, and one request() invocation sends at
\* most two HTTP calls: the original one and, after one restart, one retry.
C32_OneRoundTripPerCall ==
  [][\A t \in Tasks :
       /\ Sends(t) => /\ HttpMethod(PayloadOf(t)')
                           = (IF Given(PayloadOf(t)') THEN "POST" ELSE "GET")
                      /\ task'[t].to = listener'
       /\ (task'[t].pc = "http1" /\ task[t].pc # "http1")
            => task[t].pc \in {"idle", "await_start"}
       /\ (task'[t].pc = "http2" /\ task[t].pc # "http2")
            => (task[t].pc \in {"after_stop", "restart_start"} /\ task[t].rs = 1)
       /\ task[t].pc = "http1" => task'[t].pc # "http2"
       /\ task[t].pc = "http2" => task'[t].pc \in {"http2", "done"}
       /\ task[t].pc \in {"stopping", "after_stop", "restart_start"}
            => task'[t].pc # "http1"
       /\ task[t].pc \in {"done", "closed"} => ~Sends(t)]_vars

C32_Witness ==
  \E c \in Clients :
    /\ task[c].kind = "request" /\ task[c].pc = "done"
    /\ task[c].rs = 1 /\ task[c].res = OkRes
    /\ payload = "undefined"

\* the end state of playback
AtEnd == sim.loaded /\ sim.currentIndex = Len(sim.segments)
\* this step is an animation tick
Ticks == \E delta \in 0..MaxDelta : tick(delta)

\* C33: playback state invariant. On a compiled mission, after any sequence of
\* ticks, togglePlay, stepForward and resetSimulation,
\* 0 <= currentIndex <= segments.length; a tick that reaches
\* currentIndex = segments.length makes the simulation inactive with
\* progress = 0 and dwellQueue = 0; togglePlay in that end state restarts
\* playback from currentIndex = 0.
C33_PlaybackInvariant ==
  [][/\ sim'.loaded => /\ 0 <= sim'.currentIndex
                       /\ sim'.currentIndex <= Len(sim'.segments)
     /\ (Ticks /\ sim'.currentIndex = Len(sim.segments))
          => (~sim'.active /\ sim'.progress = 0 /\ sim'.dwellQueue = 0)
     /\ (togglePlay /\ AtEnd)
          => (sim'.active /\ sim'.currentIndex = 0 /\ sim'.progress = 0)]_vars

C33_Witness ==
  /\ AtEnd /\ Len(sim.segments) = MaxSegments
  /\ ~sim.active /\ sim.progress = 0 /\ sim.dwellQueue = 0
  /\ sim.dwell[MaxSegments] # 0 /\ sim.segments[MaxSegments] = MaxLength

\* C34: dwell handling in playback. While dwellQueue > 0 a tick only decreases
\* dwellQueue, never below 0, and leaves currentIndex and progress unchanged;
\* a tick that arrives at a waypoint with a dwell event advances no further and
\* leaves progress = 0; dwellQueue is 0 whenever the user has moved the
\* position with stepForward or resetSimulation.
C34_DwellHandling ==
  [][/\ (Ticks /\ sim.dwellQueue > 0)
          => /\ 0 <= sim'.dwellQueue /\ sim'.dwellQueue <= sim.dwellQueue
             /\ sim'.currentIndex = sim.currentIndex
             /\ sim'.progress = sim.progress
     /\ (Ticks /\ sim.dwellQueue = 0)
          => /\ \A j \in (sim.currentIndex + 1)..(sim'.currentIndex - 1) :
                  sim.dwell[j] = 0
             /\ (sim'.currentIndex > sim.currentIndex
                 /\ sim.dwell[sim'.currentIndex] # 0) => sim'.progress = 0
     /\ (stepForward \/ resetSimulation) => sim'.dwellQueue = 0]_vars

\* new Error('Python worker is unavailable. Please try again.')
Unavailable == ErrorOf(<<"unavailable">>)

\* C35: request() reaches normalizeError only with errors that
\* shouldAttemptRecovery classified as non-recoverable, so it never rejects
\* with 'Python worker is unavailable. Please try again.': a connection-level
\* failure (ECONNREFUSED, ECONNRESET, ETIMEDOUT) takes the restart-and-retry
\* path instead.
C35_UnavailableNeverSurfaces ==
  [][/\ \A e \in ErrDomain : normalizeError(e) = Unavailable => shouldAttemptRecovery(e)
     /\ \A t \in Tasks :
          /\ task'[t].res # Unavailable
          /\ (task[t].pc = "http1" /\ task'[t].pc = "done" /\ task'[t].res # OkRes)
               => /\ ~shouldAttemptRecovery(task'[t].err1)
                  /\ task'[t].res = normalizeError(task'[t].err1)
          /\ (task[t].pc = "http1" /\ task'[t].err1.code \in TRANSIENT_ERROR_CODES)
               => /\ task'[t].rs = task[t].rs + 1
                  /\ task'[t].pc \in {"stopping", "after_stop"}
                  /\ task'[t].res = NoRes]_vars

C35_Witness ==
  \E c \in Clients :
    /\ task[c].kind = "request" /\ task[c].pc = "done"
    /\ task[c].err1.code \in TRANSIENT_ERROR_CODES /\ task[c].rs = 1
    /\ task[c].res \notin {OkRes, NoRes}

====
